---- MODULE Spec2Model ----
(***************************************************************************)
(* Model of split.py: split_image(image_path, tile_width_meters,           *)
(* save_path, project_name), one call of it, from the existence check of   *)
(* the input file to "Processamento concluido." or to the exception that   *)
(* ends the call.                                                          *)
(*                                                                         *)
(* Physical lengths (tile_width_meters, the scale terms of the affine      *)
(* transform) are integers counting halves of a physical unit: 0.5         *)
(* units/pixel is 1 and 100 units is 200.  All the lengths used are small  *)
(* dyadic numbers, for which the float quotient of line 37 is either an    *)
(* exact integer or further from every integer than the rounding error,    *)
(* so math.ceil of the float quotient is the ceiling of the exact quotient.*)
(*                                                                         *)
(* Arrays (numpy.ndarray) are records [shape, nz]: nz holds the pairs      *)
(* <<index tuple, sample>> of the samples that are not zero (indices       *)
(* 0-based, as in numpy); every other index of the shape holds 0.          *)
(***************************************************************************)
EXTENDS Integers, Sequences, FiniteSets, TLC

VARIABLES
    pc,                 \* position of the call in split_image
    error,              \* the exception that ended the call, "none" otherwise
    tile_width_meters,  \* argument (half units)
    image_path_isfile,  \* os.path.isfile(image_path)
    save_path_exists,   \* os.path.exists(save_path)
    src_state,          \* "unopened", "open" or "closed": the rasterio dataset
    opens,              \* number of successful rasterio.open calls
    src,                \* the dataset behind image_path, known once opened
    img_width, img_height, count_bands,
    pixel_width_meters, pixel_height_meters,
    tile_width_pixels,
    w_tiles, h_tiles,
    tile_number,
    i, j,               \* loop variables of lines 55 and 56
    window,             \* the Window of line 62
    tile_data,          \* the array of line 64
    read_log,           \* the windows passed to src.read, in call order
    files               \* tile number n |-> array written to {project_name}_tile_{n}.png

vars == <<pc, error, tile_width_meters, image_path_isfile, save_path_exists, src_state, opens, src,
          img_width, img_height, count_bands, pixel_width_meters,
          pixel_height_meters, tile_width_pixels, w_tiles, h_tiles, tile_number,
          i, j, window, tile_data, read_log, files>>

locals == <<img_width, img_height, count_bands, pixel_width_meters,
            pixel_height_meters, tile_width_pixels, w_tiles, h_tiles,
            tile_number, i, j, window, tile_data>>

----------------------------------------------------------------------------
(* Bounds of the explored inputs *)

MaxDim == 3         \* rasters of 1..MaxDim pixels per axis
MaxBands == 5       \* rasters of 1..MaxBands bands

(* tile_width_meters as argparse's type=float accepts it: negative, zero,  *)
(* half a unit, one unit, two units.                                       *)
TileSizes == {-2, 0, 1, 2, 4}

(* Horizontal and vertical scale terms transform[0] and transform[4]; the  *)
(* vertical one of a north-up raster is negative.                          *)
ScalesX == {0, 1, -2}
ScalesY == {0, -2}

----------------------------------------------------------------------------
(* Python and numpy operations *)

Abs(a) == IF a < 0 THEN -a ELSE a

Min(a, b) == IF a < b THEN a ELSE b

\* math.ceil(a / b) for b > 0
CeilDiv(a, b) == -((-a) \div b)

\* a // b for b # 0 (Python floors towards minus infinity)
FloorDiv(a, b) == IF b > 0 THEN a \div b ELSE (-a) \div (-b)

\* numpy index tuples of an array of the given shape (2 or 3 axes)
Indices(shape) ==
    IF Len(shape) = 2
    THEN (0 .. shape[1] - 1) \X (0 .. shape[2] - 1)
    ELSE (0 .. shape[1] - 1) \X (0 .. shape[2] - 1) \X (0 .. shape[3] - 1)

\* a[idx]
At(a, idx) ==
    LET hits == {e \in a.nz : e[1] = idx}
    IN  IF hits = {} THEN 0 ELSE (CHOOSE e \in hits : TRUE)[2]

NoArray == [shape |-> <<0, 0, 0>>, nz |-> {}]

\* np.transpose(a, (1, 2, 0)): axis k of the result is axis (1, 2, 0)[k] of a
Transpose(a) ==
    [shape |-> <<a.shape[2], a.shape[3], a.shape[1]>>,
     nz |-> {<<<<e[1][2], e[1][3], e[1][1]>>, e[2]>> : e \in a.nz}]

\* a[:, :, order]: channel k of the result is channel order[k + 1] of a
TakeChannels(a, order) ==
    [shape |-> <<a.shape[1], a.shape[2], Len(order)>>,
     nz |-> {<<<<p[1][1][1], p[1][1][2], p[2]>>, p[1][2]>> :
                p \in {q \in a.nz \X (0 .. Len(order) - 1) : order[q[2] + 1] = q[1][1][3]}}]

\* a[:, :, k]
Channel(a, k) ==
    [shape |-> <<a.shape[1], a.shape[2]>>,
     nz |-> {<<<<e[1][1], e[1][2]>>, e[2]>> : e \in {f \in a.nz : f[1][3] = k}}]

\* np.all(a == 0)
AllZero(a) == \A idx \in Indices(a.shape) : At(a, idx) = 0

\* np.any(a)
AnyNonZero(a) == \E idx \in Indices(a.shape) : At(a, idx) # 0

----------------------------------------------------------------------------
(* The raster file and rasterio *)

\* Window(col_off, row_off, width, height)
Window(x, y, width, height) == [col_off |-> x, row_off |-> y, width |-> width, height |-> height]

NoWindow == Window(0, 0, 0, 0)

(* A dataset: size, band count, affine transform (a, b, c, d, e, f) and    *)
(* samples.  lit is the set of <<band, row, col>> (band 1-based as in      *)
(* rasterio) whose sample is not zero; the sample there is the band number,*)
(* so that a sample tells which band it came from.                         *)
SampleAt(ds, band, row, col) == IF <<band, row, col>> \in ds.lit THEN band ELSE 0

NoDataset == [width |-> 0, height |-> 0, count |-> 0,
              transform |-> <<0, 0, 0, 0, 0, 0>>, lit |-> {}]

\* src.read(window=w): shape (band, height, width), band k of the file at index k - 1
DatasetRead(ds, w) ==
    [shape |-> <<ds.count, w.height, w.width>>,
     nz |-> {<<<<p[1] - 1, p[2] - w.row_off, p[3] - w.col_off>>, SampleAt(ds, p[1], p[2], p[3])>> :
                p \in {q \in ds.lit :
                          /\ w.row_off <= q[2] /\ q[2] < w.row_off + w.height
                          /\ w.col_off <= q[3] /\ q[3] < w.col_off + w.width}}]

(* The samples that may be non-zero: band 1 at the first pixel, band 2 at  *)
(* the last one, the last band at both.                                    *)
LitCandidates(width, height, count) ==
    {<<1, 0, 0>>, <<Min(2, count), height - 1, width - 1>>,
     <<count, 0, 0>>, <<count, height - 1, width - 1>>}

DatasetsOf(w, h, c) ==
    { [width |-> w, height |-> h, count |-> c,
       transform |-> <<sx, 0, 0, 0, sy, 0>>,
       lit |-> l] :
        sx \in ScalesX, sy \in ScalesY, l \in SUBSET LitCandidates(w, h, c) }

SmallDatasets ==
    UNION { DatasetsOf(w, h, c) : w \in 1 .. MaxDim, h \in 1 .. MaxDim, c \in 1 .. MaxBands }

(* The worked example: a 500 x 500 raster at 0.5 units/pixel, cut with a   *)
(* tile size of 100 units.                                                 *)
ExampleInput ==
    [size |-> 200,
     dataset |-> [width |-> 500, height |-> 500, count |-> 1,
                  transform |-> <<1, 0, 0, 0, -1, 0>>, lit |-> {<<1, 0, 0>>}]]

\* the datasets explored with a given tile size
Datasets(size) == IF size = ExampleInput.size THEN {ExampleInput.dataset} ELSE SmallDatasets

----------------------------------------------------------------------------
(* split_image *)

Init ==
    /\ pc = "isfile"
    /\ error = "none"
    /\ tile_width_meters \in TileSizes \cup {ExampleInput.size}
    /\ image_path_isfile \in BOOLEAN
    /\ save_path_exists \in BOOLEAN
    /\ src_state = "unopened"
    /\ opens = 0
    /\ src = NoDataset
    /\ img_width = 0 /\ img_height = 0 /\ count_bands = 0
    /\ pixel_width_meters = 0 /\ pixel_height_meters = 0
    /\ tile_width_pixels = 0
    /\ w_tiles = 0 /\ h_tiles = 0
    /\ tile_number = 0
    /\ i = 0 /\ j = 0
    /\ window = NoWindow
    /\ tile_data = NoArray
    /\ read_log = <<>>
    /\ files = <<>>

\* an exception leaves split_image
Raise(kind) == pc' = "failed" /\ error' = kind

\* leaving the with block of line 22 closes src
ExitWith == src_state' = "closed"

\* the exception leaves a dataset that no with block manages
RaiseInWithLeak(kind) == Raise(kind) /\ UNCHANGED src_state

\* an exception raised inside the with block of line 22
RaiseInWith(kind) == Raise(kind) /\ ExitWith

\* cv2.imwrite(output_path, out_img) to the file of tile n
ImWrite(n, out_img) ==
    files' = [k \in DOMAIN files \cup {n} |-> IF k = n THEN out_img ELSE files[k]]

\* the existence check placed after the creation of the output directory
CheckFileAfterMakeDirs ==
    /\ pc = "isfile"
    /\ save_path_exists' = TRUE
    /\ IF ~image_path_isfile
       THEN Raise("FileNotFoundError")
       ELSE pc' = "makedirs" /\ UNCHANGED error
    /\ UNCHANGED <<tile_width_meters, image_path_isfile, src_state, opens, src,
                   locals, read_log, files>>

\* lines 14-15
CheckFile ==
    /\ pc = "isfile"
    /\ IF ~image_path_isfile
       THEN Raise("FileNotFoundError")
       ELSE pc' = "makedirs" /\ UNCHANGED error
    /\ UNCHANGED <<tile_width_meters, image_path_isfile, save_path_exists, src_state, opens, src,
                   locals, read_log, files>>

\* lines 18-20
MakeDirs ==
    /\ pc = "makedirs"
    /\ save_path_exists' = TRUE
    /\ pc' = "open"
    /\ UNCHANGED <<error, tile_width_meters, image_path_isfile, src_state, opens,
                   src, locals, read_log, files>>

\* line 22, the file is a raster rasterio can open
Open ==
    /\ pc = "open"
    /\ \E ds \in Datasets(tile_width_meters) : src' = ds
    /\ src_state' = "open"
    /\ opens' = opens + 1
    /\ pc' = "meta"
    /\ UNCHANGED <<error, tile_width_meters, image_path_isfile, save_path_exists, locals, read_log, files>>

\* line 22, the file is no raster: rasterio.open raises
OpenFail ==
    /\ pc = "open"
    /\ Raise("RasterioIOError")
    /\ UNCHANGED <<tile_width_meters, image_path_isfile, save_path_exists, src_state, opens, src,
                   locals, read_log, files>>

\* lines 29-30
PixelSize(scale) == Abs(scale)

\* both resolutions must be zero to fail
BadResolutionBoth(pw, ph) == pw = 0 /\ ph = 0

\* line 33
BadResolution(pw, ph) == pw = 0 \/ ph = 0

\* line 37
TilePixels(size, pw) == CeilDiv(size, pw)

\* lines 23-37
Meta ==
    /\ pc = "meta"
    /\ img_width' = src.width
    /\ img_height' = src.height
    /\ count_bands' = src.count
    /\ pixel_width_meters' = PixelSize(src.transform[1])
    /\ pixel_height_meters' = PixelSize(src.transform[5])
    /\ IF BadResolution(pixel_width_meters', pixel_height_meters')
       THEN /\ RaiseInWith("ValueError")
            /\ UNCHANGED tile_width_pixels
       ELSE IF pixel_width_meters' = 0
            THEN \* line 37: float division by zero
                 /\ RaiseInWith("ZeroDivisionError")
                 /\ UNCHANGED tile_width_pixels
            ELSE /\ tile_width_pixels' = TilePixels(tile_width_meters, pixel_width_meters')
                 /\ pc' = "grid"
                 /\ UNCHANGED <<error, src_state>>
    /\ UNCHANGED <<tile_width_meters, image_path_isfile, save_path_exists, opens, src, w_tiles, h_tiles,
                   tile_number, i, j, window, tile_data, read_log, files>>

\* the tiles that fit whole
TilesAlongFloor(dim, t) == FloorDiv(dim, t)

\* lines 49-50: (dim + tile_width_pixels - 1) // tile_width_pixels
TilesAlong(dim, t) == FloorDiv(dim + t - 1, t)

\* lines 49-56, up to the first test of the loops
Grid ==
    /\ pc = "grid"
    /\ IF tile_width_pixels = 0
       THEN /\ RaiseInWith("ZeroDivisionError")
            /\ UNCHANGED <<w_tiles, h_tiles, tile_number, i, j>>
       ELSE /\ w_tiles' = TilesAlong(img_width, tile_width_pixels)
            /\ h_tiles' = TilesAlong(img_height, tile_width_pixels)
            /\ tile_number' = 0
            /\ i' = 0
            /\ j' = 0
            /\ pc' = "loop"
            /\ UNCHANGED <<error, src_state>>
    /\ UNCHANGED <<tile_width_meters, image_path_isfile, save_path_exists, opens, src, img_width,
                   img_height, count_bands, pixel_width_meters, pixel_height_meters,
                   tile_width_pixels, window, tile_data, read_log, files>>

\* the window without the clipping of lines 59-60
TileWindowUnclipped(r, c) ==
    Window(c * tile_width_pixels, r * tile_width_pixels, tile_width_pixels, tile_width_pixels)

\* lines 57-62: the window of the tile in row r, column c of the grid
TileWindow(r, c) ==
    LET x == c * tile_width_pixels
        y == r * tile_width_pixels
        width == Min(tile_width_pixels, img_width - x)
        height == Min(tile_width_pixels, img_height - y)
    IN  Window(x, y, width, height)

(* lines 55-64: one more tile; src.read raises for a window of negative    *)
(* size, and may raise for any window (an I/O error).                      *)
ReadTile ==
    /\ pc = "loop"
    /\ i < h_tiles /\ j < w_tiles
    /\ window' = TileWindow(i, j)
    /\ read_log' = Append(read_log, window')
    /\ \E ok \in BOOLEAN :
          IF ok /\ window'.width > 0 /\ window'.height > 0
          THEN /\ tile_data' = DatasetRead(src, window')
               /\ pc' = "tile"
               /\ UNCHANGED <<error, src_state>>
          ELSE /\ RaiseInWith(IF ok THEN "WindowError" ELSE "RasterioIOError")
               /\ UNCHANGED tile_data
    /\ UNCHANGED <<tile_width_meters, image_path_isfile, save_path_exists, opens, src, img_width,
                   img_height, count_bands, pixel_width_meters, pixel_height_meters,
                   tile_width_pixels, w_tiles, h_tiles, tile_number, i, j, files>>

\* line 56 exhausted: next iteration of line 55
NextRow ==
    /\ pc = "loop"
    /\ i < h_tiles /\ j >= w_tiles
    /\ i' = i + 1
    /\ j' = 0
    /\ UNCHANGED <<pc, error, tile_width_meters, image_path_isfile, save_path_exists, src_state, opens,
                   src, img_width, img_height, count_bands, pixel_width_meters,
                   pixel_height_meters, tile_width_pixels, w_tiles, h_tiles,
                   tile_number, window, tile_data, read_log, files>>

\* line 55 exhausted: the with block ends, line 115
Finish ==
    /\ pc = "loop"
    /\ i >= h_tiles
    /\ ExitWith
    /\ pc' = "done"
    /\ UNCHANGED <<error, tile_width_meters, image_path_isfile, save_path_exists, opens, src, locals,
                   read_log, files>>

\* line 74
BGRA == <<2, 1, 0, 3>>

\* lines 69-74
OutImg4(data) == TakeChannels(Transpose(data), BGRA)

\* emptiness judged on all four channels
Empty4AnyChannel(out_img) == ~AnyNonZero(out_img)

\* lines 77-78
Empty4(out_img) == AllZero(Channel(out_img, 3))

\* line 97 uncommented
OutImg3Swapped(data) == TakeChannels(Transpose(data), <<2, 1, 0>>)

\* line 95
OutImg3(data) == Transpose(data)

\* line 99
Empty3(out_img) == ~AnyNonZero(out_img)

(* The end of an iteration of line 56: tile_number += 1 (lines 80, 91,     *)
(* 101, 108, 113) and the next j.                                          *)
NextTile ==
    /\ tile_number' = tile_number + 1
    /\ j' = j + 1
    /\ pc' = "loop"
    /\ UNCHANGED <<error, src_state>>

\* a skipped tile that consumes no index
SkipOrWriteDense(empty, out_img) ==
    IF empty
    THEN /\ j' = j + 1
         /\ pc' = "loop"
         /\ UNCHANGED <<error, src_state, tile_number, files>>
    ELSE ImWrite(tile_number, out_img) /\ NextTile

(* Lines 78-91 and 99-108: skip an empty tile, write the others;           *)
(* cv2.imwrite may raise.                                                  *)
SkipOrWrite(empty, out_img) ==
    IF empty
    THEN NextTile /\ UNCHANGED files
    ELSE \E ok \in BOOLEAN :
            IF ok
            THEN ImWrite(tile_number, out_img) /\ NextTile
            ELSE /\ RaiseInWith("cv2.error")
                 /\ UNCHANGED <<files, tile_number, j>>

\* lines 67-91
Tile4 ==
    /\ pc = "tile"
    /\ count_bands = 4
    /\ SkipOrWrite(Empty4(OutImg4(tile_data)), OutImg4(tile_data))
    /\ UNCHANGED <<tile_width_meters, image_path_isfile, save_path_exists, opens, src, img_width,
                   img_height, count_bands, pixel_width_meters, pixel_height_meters,
                   tile_width_pixels, w_tiles, h_tiles, i, window, tile_data, read_log>>

\* lines 93-108
Tile3 ==
    /\ pc = "tile"
    /\ count_bands = 3
    /\ SkipOrWrite(Empty3(OutImg3(tile_data)), OutImg3(tile_data))
    /\ UNCHANGED <<tile_width_meters, image_path_isfile, save_path_exists, opens, src, img_width,
                   img_height, count_bands, pixel_width_meters, pixel_height_meters,
                   tile_width_pixels, w_tiles, h_tiles, i, window, tile_data, read_log>>

\* the other band counts handled as line 93 handles three bands
TileUnsupportedWritten ==
    /\ pc = "tile"
    /\ count_bands \notin {3, 4}
    /\ SkipOrWrite(Empty3(OutImg3(tile_data)), OutImg3(tile_data))
    /\ UNCHANGED <<tile_width_meters, image_path_isfile, save_path_exists, opens, src,
                   img_width, img_height, count_bands, pixel_width_meters,
                   pixel_height_meters, tile_width_pixels, w_tiles, h_tiles, i,
                   window, tile_data, read_log>>

\* lines 110-113
TileUnsupported ==
    /\ pc = "tile"
    /\ count_bands \notin {3, 4}
    /\ NextTile
    /\ UNCHANGED <<tile_width_meters, image_path_isfile, save_path_exists, opens, src, img_width,
                   img_height, count_bands, pixel_width_meters, pixel_height_meters,
                   tile_width_pixels, w_tiles, h_tiles, i, window, tile_data,
                   read_log, files>>

Next ==
    \/ CheckFile
    \/ MakeDirs
    \/ Open
    \/ OpenFail
    \/ Meta
    \/ Grid
    \/ ReadTile
    \/ NextRow
    \/ Finish
    \/ Tile4
    \/ Tile3
    \/ TileUnsupported

Spec == Init /\ [][Next]_vars

(* split_image runs synchronously on one thread: as long as a statement is *)
(* left to execute, one executes.                                          *)
FairSpec == Spec /\ WF_vars(Next)

----------------------------------------------------------------------------
(* Properties *)

\* the grid of lines 49-50 has been computed
GridKnown == pc \in {"loop", "tile", "done"} \/ (pc = "failed" /\ read_log # <<>>)

\* the row and the column of the grid that tile index n stands for
RowOf(n) == n \div w_tiles
ColOf(n) == n % w_tiles

\* pixel (px, py) lies in window w
Covers(w, px, py) ==
    /\ w.col_off <= px /\ px < w.col_off + w.width
    /\ w.row_off <= py /\ py < w.row_off + w.height

(* C1: the tile index starts at 0 and grows by exactly one per grid tile,  *)
(* in row-major order, whether the tile is written or skipped: the tile of *)
(* row i, column j is processed under index i * w_tiles + j, the index     *)
(* only ever changes by +1 and only at the end of a tile's processing,     *)
(* every completed tile changes it (so no two tiles share an index), and a *)
(* completed run on a valid input ends with index w_tiles * h_tiles, the   *)
(* written file names lying below it.                                      *)
C1_TileIndex ==
    /\ [](pc = "grid" => tile_number = 0)
    /\ [](pc = "tile" =>
             /\ 0 <= i /\ i < h_tiles /\ 0 <= j /\ j < w_tiles
             /\ tile_number = i * w_tiles + j)
    /\ []((pc = "done" /\ tile_width_pixels >= 1) =>
             /\ tile_number = w_tiles * h_tiles
             /\ Len(read_log) = tile_number)
    /\ [](DOMAIN files \subseteq 0 .. tile_number - 1)
    /\ [][/\ tile_number' # tile_number => (pc = "tile" /\ tile_number' = tile_number + 1)
          /\ (pc = "tile" /\ pc' = "loop") => tile_number' = tile_number + 1]_vars

\* a 3 x 3 grid of a 4-band raster, completed with 9 indices and gaps in the files
C1_Witness ==
    /\ pc = "done"
    /\ count_bands = 4
    /\ w_tiles = 3 /\ h_tiles = 3
    /\ tile_number = 9
    /\ DOMAIN files = {0, 8}

(* C2: the window read for tile index n, in row RowOf(n) and column        *)
(* ColOf(n), starts at (column * tile_px, row * tile_px); its width and    *)
(* height are exactly tile_px off the right and bottom borders, and on     *)
(* them positive, at most tile_px and equal to the image dimension minus   *)
(* tile_px times the number of tiles before it on that axis.  The          *)
(* 500 x 500 raster at 0.5 units/pixel cut at 100 units has tile_px = 200, *)
(* a 3 x 3 grid, window (0, 0, 200, 200) for tile 0 and (400, 0, 100, 200) *)
(* for tile 2.                                                             *)
C2_WindowOk(n, w) ==
    /\ w.col_off = ColOf(n) * tile_width_pixels
    /\ w.row_off = RowOf(n) * tile_width_pixels
    /\ w.width = Min(tile_width_pixels, img_width - w.col_off)
    /\ w.height = Min(tile_width_pixels, img_height - w.row_off)
    /\ ColOf(n) < w_tiles - 1 => w.width = tile_width_pixels
    /\ RowOf(n) < h_tiles - 1 => w.height = tile_width_pixels
    /\ ColOf(n) = w_tiles - 1 =>
          /\ 0 < w.width /\ w.width <= tile_width_pixels
          /\ w.width = img_width - tile_width_pixels * (w_tiles - 1)
    /\ RowOf(n) = h_tiles - 1 =>
          /\ 0 < w.height /\ w.height <= tile_width_pixels
          /\ w.height = img_height - tile_width_pixels * (h_tiles - 1)

C2_Windows ==
    /\ (GridKnown /\ tile_width_pixels >= 1) =>
          /\ \A k \in 1 .. Len(read_log) : C2_WindowOk(k - 1, read_log[k])
          /\ pc = "tile" => window = read_log[tile_number + 1]
    /\ (GridKnown /\ src = ExampleInput.dataset) =>
          /\ tile_width_pixels = 200
          /\ w_tiles = 3 /\ h_tiles = 3
          /\ Len(read_log) >= 1 => read_log[1] = Window(0, 0, 200, 200)
          /\ Len(read_log) >= 3 => read_log[3] = Window(400, 0, 100, 200)
          /\ pc = "done" => tile_number = 9

\* the worked example, completed: the third read is the clipped window
C2_Witness ==
    /\ pc = "done"
    /\ src = ExampleInput.dataset
    /\ Len(read_log) = 9
    /\ read_log[3].width = 100

(* C10: on a completed run with tile_px >= 1 the windows read partition    *)
(* the image: every pixel lies in the window of exactly one tile, the one  *)
(* of index (py div tile_px) * w_tiles + (px div tile_px), and no window   *)
(* reaches past the image.                                                 *)
C10_Partition ==
    (pc = "done" /\ tile_width_pixels >= 1) =>
        /\ Len(read_log) = w_tiles * h_tiles
        /\ \A px \in 0 .. img_width - 1, py \in 0 .. img_height - 1 :
              {k \in 1 .. Len(read_log) : Covers(read_log[k], px, py)} =
                  {(py \div tile_width_pixels) * w_tiles + (px \div tile_width_pixels) + 1}
        /\ \A k \in 1 .. Len(read_log) :
              /\ read_log[k].col_off >= 0 /\ read_log[k].row_off >= 0
              /\ read_log[k].width >= 1 /\ read_log[k].height >= 1
              /\ read_log[k].col_off + read_log[k].width <= img_width
              /\ read_log[k].row_off + read_log[k].height <= img_height

\* a 2 x 2 grid of a 3 x 3 image: the right and bottom tiles are clipped
C10_Witness ==
    /\ pc = "done"
    /\ img_width = 3 /\ img_height = 3
    /\ tile_width_pixels = 2
    /\ Len(read_log) = 4
    /\ read_log[4] = Window(2, 2, 1, 1)

\* some sample of band b of the file lies in window w and is not zero
BandLit(b, w) ==
    \E r \in 0 .. w.height - 1, c \in 0 .. w.width - 1 :
        SampleAt(src, b, w.row_off + r, w.col_off + c) # 0

\* channel k of image img holds band b of the file over window w
ChannelIsBand(img, k, b, w) ==
    \A r \in 0 .. w.height - 1, c \in 0 .. w.width - 1 :
        At(img, <<r, c, k>>) = SampleAt(src, b, w.row_off + r, w.col_off + c)

(* C3: of a 4-band source, a processed tile has a file exactly when band 4 *)
(* (alpha) has a non-zero sample in its window, whatever the other bands   *)
(* hold; the file has the window's size, channel 3 is band 4 unchanged and *)
(* channels 0, 1, 2 are bands 3, 2, 1.                                     *)
C3_FourBands ==
    count_bands = 4 =>
        /\ DOMAIN files \subseteq 0 .. tile_number - 1
        /\ \A n \in 0 .. tile_number - 1 :
              LET w == read_log[n + 1] IN
              /\ n \in DOMAIN files <=> BandLit(4, w)
              /\ n \in DOMAIN files =>
                    /\ files[n].shape = <<w.height, w.width, 4>>
                    /\ ChannelIsBand(files[n], 3, 4, w)
                    /\ ChannelIsBand(files[n], 0, 3, w)
                    /\ ChannelIsBand(files[n], 1, 2, w)
                    /\ ChannelIsBand(files[n], 2, 1, w)

(* a completed 4-band run: tile 0 holds a non-zero sample of band 1 and no *)
(* alpha and was skipped, the last tile was written with its band 2 sample *)
C3_Witness ==
    /\ pc = "done"
    /\ count_bands = 4
    /\ tile_number = 4
    /\ src.lit = {<<1, 0, 0>>, <<2, 2, 2>>, <<4, 2, 2>>}
    /\ DOMAIN files = {3}
    /\ At(files[3], <<0, 0, 1>>) = 2

(* C4: of a 3-band source, a processed tile has a file exactly when some   *)
(* sample of some band in its window is not zero; the file has the         *)
(* window's size and channels 0, 1, 2 are bands 1, 2, 3.                   *)
C4_ThreeBands ==
    count_bands = 3 =>
        /\ DOMAIN files \subseteq 0 .. tile_number - 1
        /\ \A n \in 0 .. tile_number - 1 :
              LET w == read_log[n + 1] IN
              /\ n \in DOMAIN files <=> \E b \in 1 .. 3 : BandLit(b, w)
              /\ n \in DOMAIN files =>
                    /\ files[n].shape = <<w.height, w.width, 3>>
                    /\ \A k \in 0 .. 2 : ChannelIsBand(files[n], k, k + 1, w)

\* a completed 3-band run: tile 0 written with band 1 in channel 0, tile 1 skipped
C4_Witness ==
    /\ pc = "done"
    /\ count_bands = 3
    /\ tile_number = 4
    /\ DOMAIN files = {0, 3}
    /\ At(files[0], <<0, 0, 0>>) = 1
    /\ At(files[3], <<0, 0, 2>>) = 3

(* C5: with a band count other than 3 and 4 no file is ever written and    *)
(* cv2.imwrite never fails; each tile read is skipped without an error and *)
(* takes one index; the loop goes on to normal completion unless src.read  *)
(* itself raises, and a completed run has indexed every tile it read.      *)
C5_Unsupported ==
    /\ []((src_state # "unopened" /\ src.count \notin {3, 4}) =>
             /\ files = <<>>
             /\ error # "cv2.error"
             /\ pc = "done" => tile_number = Len(read_log))
    /\ [][(pc = "tile" /\ count_bands \notin {3, 4}) =>
             /\ pc' = "loop"
             /\ error' = "none"
             /\ tile_number' = tile_number + 1
             /\ files' = files]_vars
    /\ (pc = "loop" /\ count_bands \notin {3, 4})
          ~> (pc = "done" \/ error \in {"RasterioIOError", "WindowError"})

\* a completed 5-band run over 9 tiles with non-zero samples
C5_Witness ==
    /\ pc = "done"
    /\ count_bands = 5
    /\ src.lit # {}
    /\ tile_number = 9
    /\ files = <<>>

(* C6: a dataset whose horizontal or vertical resolution is zero ends the  *)
(* call with the ValueError of line 34 as soon as its metadata are read:   *)
(* the dataset was opened, the grid was not computed, nothing was read or  *)
(* written and the tile index is 0.                                        *)
C6_ZeroResolution ==
    /\ (src_state # "unopened" /\ pc # "meta"
          /\ (src.transform[1] = 0 \/ src.transform[5] = 0)) =>
          (pc = "failed" /\ error = "ValueError")
    /\ error = "ValueError" =>
          /\ opens = 1
          /\ src_state = "closed"
          /\ tile_width_pixels = 0 /\ w_tiles = 0 /\ h_tiles = 0
          /\ read_log = <<>>
          /\ files = <<>>
          /\ tile_number = 0

\* the vertical resolution alone is zero
C6_Witness ==
    /\ error = "ValueError"
    /\ src.transform[1] # 0
    /\ src.transform[5] = 0

(* C7: when image_path names no file the call ends with FileNotFoundError  *)
(* at its first step: the dataset is never opened, nothing is read or      *)
(* written and the output directory is not created.                        *)
C7_MissingFile ==
    /\ []((~image_path_isfile /\ pc # "isfile") =>
             (pc = "failed" /\ error = "FileNotFoundError"))
    /\ [](error = "FileNotFoundError" =>
             /\ ~image_path_isfile
             /\ opens = 0 /\ src_state = "unopened"
             /\ read_log = <<>> /\ files = <<>>)
    /\ [][~image_path_isfile =>
             UNCHANGED <<save_path_exists, src_state, opens, read_log, files>>]_vars

\* the file is missing and the output directory still does not exist
C7_Witness ==
    /\ error = "FileNotFoundError"
    /\ ~save_path_exists

(* C8: for every tile size the call accepts and every non-zero resolution  *)
(* tile_px is at least 1, and computing the grid divides by no zero.       *)
C8_TilePixelsPositive ==
    /\ pc \in {"grid", "loop", "tile", "done"} => tile_width_pixels >= 1
    /\ error # "ZeroDivisionError"

(* C9: the dataset is opened at most once; it is open exactly between line *)
(* 22 and the end of the with block; reads happen only while it is open;   *)
(* once closed it stays closed; every terminal state that opened it has it *)
(* closed; and an open dataset is eventually closed.                       *)
C9_OpenedOnceAndReleased ==
    /\ [](opens <= 1)
    /\ [](src_state = "open" <=> pc \in {"meta", "grid", "loop", "tile"})
    /\ [](pc \in {"done", "failed"} =>
             src_state = IF opens = 1 THEN "closed" ELSE "unopened")
    /\ [][read_log' # read_log => (src_state = "open" /\ opens = 1)]_vars
    /\ [][src_state = "closed" => (src_state' = "closed" /\ read_log' = read_log)]_vars
    /\ (src_state = "open" ~> src_state = "closed")

\* cv2.imwrite raised after an earlier tile was written: the dataset is closed
C9_Witness ==
    /\ pc = "failed"
    /\ error = "cv2.error"
    /\ files # <<>>
    /\ src_state = "closed"

====
